---- MODULE Spec2Model ----
(***************************************************************************)
(* State-machine model of src/chat-handler.js: one invocation of           *)
(* handleGeminiChat (validation, payload construction, the single fetch,   *)
(* interpretation of the upstream response, the catch-all handler)         *)
(* followed by createResponse on its result.                               *)
(*                                                                         *)
(* JavaScript values are tagged records.  A string is a sequence of text   *)
(* segments: the string literals of the source are one segment each, the   *)
(* strings supplied by callers and by the upstream service are sequences   *)
(* of one-character segments.                                              *)
(***************************************************************************)
EXTENDS Integers, Sequences, FiniteSets, TLC

\* ------------------------------------------------------------------------
\* JavaScript values and the language operations the handler applies to them
\* ------------------------------------------------------------------------

UNDEFINED == [t |-> "undefined"]

NULL == [t |-> "null"]

Str(s) == [t |-> "string", s |-> s]

Num(n) == [t |-> "number", n |-> n]

Obj(f) == [t |-> "object", f |-> f]

Arr(a) == [t |-> "array", a |-> a]

\* The outcome of an evaluation that raised an exception (or of a promise
\* that rejected).
THROWN == [t |-> "thrown"]

EmptyObj == Obj([k \in {} |-> UNDEFINED])

\* v is undefined or null: reading a property of it raises a TypeError.
Nullish(v) == v.t \in {"undefined", "null"}

\* ToBoolean(v), as applied by !v, v && w, v || w and if (v).
Truthy(v) ==
  CASE v.t = "undefined" -> FALSE
    [] v.t = "null"      -> FALSE
    [] v.t = "string"    -> Len(v.s) > 0
    [] v.t = "number"    -> v.n # 0
    [] OTHER             -> TRUE

\* The property read v.k for a named property k.
Get(v, k) ==
  IF Nullish(v) THEN THROWN
  ELSE IF v.t = "object" /\ k \in DOMAIN v.f THEN v.f[k]
  ELSE UNDEFINED

\* The indexed read v[i], i counted from 0.
Index(v, i) ==
  IF Nullish(v) THEN THROWN
  ELSE IF v.t = "array" /\ (i + 1) \in DOMAIN v.a THEN v.a[i + 1]
  ELSE IF v.t = "string" /\ (i + 1) \in DOMAIN v.s THEN Str(<<v.s[i + 1]>>)
  ELSE UNDEFINED

\* The segments String.prototype.trim removes at both ends.
WhiteSpace == {" "}

RECURSIVE TrimStart(_)
TrimStart(s) ==
  IF s # <<>> /\ Head(s) \in WhiteSpace THEN TrimStart(Tail(s)) ELSE s

RECURSIVE TrimEnd(_)
TrimEnd(s) ==
  IF s # <<>> /\ s[Len(s)] \in WhiteSpace
    THEN TrimEnd(SubSeq(s, 1, Len(s) - 1))
    ELSE s

\* message.trim(): a TypeError when message is no string (it has no trim).
Trim(v) == IF v.t = "string" THEN Str(TrimEnd(TrimStart(v.s))) ELSE THROWN

\* seq.slice(start) of an array or a string, start possibly negative.
SliceFrom(seq, start) ==
  LET len  == Len(seq)
      from == IF start < 0
                THEN (IF len + start < 0 THEN 0 ELSE len + start)
                ELSE (IF start > len THEN len ELSE start)
  IN  SubSeq(seq, from + 1, len)

\* chatHistory.slice(-10) followed by the iteration of for...of: the array
\* of values the loop visits, THROWN when the value has no slice method.
HISTORY_LIMIT == 10

\* The first 10 entries taken instead of the last 10: slice(0, 10).
limitedHistory_firstTen(chatHistory) ==
  CASE chatHistory.t = "array"  ->
         Arr(SubSeq(chatHistory.a, 1,
                    IF Len(chatHistory.a) < HISTORY_LIMIT
                      THEN Len(chatHistory.a) ELSE HISTORY_LIMIT))
    [] chatHistory.t = "string" ->
         Arr([i \in 1..(IF Len(chatHistory.s) < HISTORY_LIMIT
                          THEN Len(chatHistory.s) ELSE HISTORY_LIMIT) |->
                Str(<<chatHistory.s[i]>>)])
    [] OTHER -> THROWN

limitedHistory(chatHistory) ==
  CASE chatHistory.t = "array"  ->
         Arr(SliceFrom(chatHistory.a, 0 - HISTORY_LIMIT))
    [] chatHistory.t = "string" ->
         LET cs == SliceFrom(chatHistory.s, 0 - HISTORY_LIMIT)
         IN  Arr([i \in 1..Len(cs) |-> Str(<<cs[i]>>)])
    [] OTHER -> THROWN

USER == Str(<<"user">>)

\* One element of contents.
Content(role, text) == [role |-> role, parts |-> <<[text |-> text]>>]

\* chat.sender === "user" ? "user" : "model"
Role(sender) == IF sender = USER THEN "user" ELSE "model"

\* A filter that looks at the sender alone.
Forwarded_senderOnly(chat) == Truthy(Get(chat, "sender"))

\* The condition of line 41 for an entry that is neither null nor undefined.
Forwarded(chat) == Truthy(Get(chat, "sender")) /\ Truthy(Get(chat, "message"))

\* The body of the for...of loop, applied to the entries left to visit with
\* the contents pushed so far; THROWN when an entry is null or undefined.
RECURSIVE PushHistory(_, _)
PushHistory(entries, contents) ==
  IF entries = <<>> THEN Arr(contents)
  ELSE LET chat == Head(entries)
       IN  IF Nullish(chat) THEN THROWN
           ELSE IF Forwarded(chat)
             THEN PushHistory(Tail(entries),
                    Append(contents,
                      Content(Role(Get(chat, "sender")), Get(chat, "message"))))
             ELSE PushHistory(Tail(entries), contents)

\* contents as built by lines 36-53 (an array), or THROWN.
BuildContents(message, chatHistory) ==
  LET limited == limitedHistory(chatHistory)
  IN  IF limited = THROWN THEN THROWN
      ELSE LET pushed == PushHistory(limited.a, <<>>)
           IN  IF pushed = THROWN THEN THROWN
               ELSE Arr(Append(pushed.a, Content("user", message)))

\* ------------------------------------------------------------------------
\* handleGeminiChat: results, the upstream response, the catch handler
\* ------------------------------------------------------------------------

\* env.GEMINI_MODEL_NAME || "gemini-2.0-flash-lite"
DEFAULT_MODEL == Str(<<"gemini-2.0-flash-lite">>)

MAX_OUTPUT_TOKENS == 1000

\* temperature: 0.7, in tenths.
TEMPERATURE_TENTHS == 7

\* The object literals returned with success: false.
Failure(error, statusCode) ==
  [success |-> FALSE, error |-> Str(<<error>>), statusCode |-> statusCode,
   reply |-> UNDEFINED]

\* The object literal returned with success: true.
Success(reply) ==
  [success |-> TRUE, reply |-> reply, statusCode |-> 200, error |-> UNDEFINED]

\* The request handed to fetch.
FetchRequest(modelName, apiKey, contents) ==
  [url     |-> <<"https://generativelanguage.googleapis.com/v1beta/models/",
                 modelName, ":generateContent?key=", apiKey>>,
   method  |-> "POST",
   headers |-> [ContentType |-> "application/json"],
   body    |-> [contents |-> contents,
                generationConfig |->
                  [maxOutputTokens |-> MAX_OUTPUT_TOKENS,
                   temperatureTenths |-> TEMPERATURE_TENTHS]]]

\* response.ok of the Fetch standard: the status is in the range 200-299.
Ok(status) == status >= 200 /\ status <= 299

\* Lines 91-110 applied to the parsed body: the object returned, or THROWN
\* when a property of undefined or null is read.
ExtractReply(result) ==
  LET candidates == Get(result, "candidates")
  IN  IF candidates = THROWN THEN THROWN
      ELSE IF ~Truthy(candidates) THEN Failure("Invalid AI response", 500)
      ELSE LET first == Index(candidates, 0)
           IN  IF ~Truthy(first) THEN Failure("Invalid AI response", 500)
               ELSE IF ~Truthy(Get(first, "content"))
                 THEN Failure("Invalid AI response", 500)
               ELSE LET parts == Get(Get(first, "content"), "parts")
                        part  == Index(parts, 0)
                    IN  IF part = THROWN THEN THROWN
                        ELSE IF Get(part, "text") = THROWN THEN THROWN
                        ELSE Success(Get(part, "text"))

\* A check that only a key that is not set is missing.
KeyMissing_undefinedOnly(apiKey) == apiKey = UNDEFINED

\* if (!API_KEY)
KeyMissing(apiKey) == ~Truthy(apiKey)

\* The validation of the message without the trim.
CheckMessage_noTrim(message) ==
  IF ~Truthy(message) THEN "missing"
  ELSE IF message.t # "string" THEN "throw"
  ELSE "present"

\* if (!message || message.trim() === ""): "missing" when the condition
\* holds, "present" when it does not, "throw" when evaluating it raises.
CheckMessage(message) ==
  IF ~Truthy(message) THEN "missing"
  ELSE IF Trim(message) = THROWN THEN "throw"
  ELSE IF Trim(message) = Str(<<>>) THEN "missing"
  ELSE "present"

\* A result that passes the upstream status on.
Unavailable_upstreamStatus(status) == Failure("AI service unavailable", status)

\* The object returned for a response that is not ok (lines 82-86).
Unavailable(status) == Failure("AI service unavailable", 500)

\* A try block that covers the call of fetch alone.
TryBlock_fetchOnly == {"fetch", "awaitFetch"}

\* The steps of handleGeminiChat that lie inside try { ... } (lines 13-111).
TryBlock ==
  {"validateEnv", "validateInput", "build", "fetch",
   "awaitFetch", "awaitText", "awaitJson"}

\* ------------------------------------------------------------------------
\* createResponse
\* ------------------------------------------------------------------------

headers ==
  [AccessControlAllowOrigin  |-> "*",
   AccessControlAllowHeaders |-> "Content-Type",
   AccessControlAllowMethods |-> "POST, OPTIONS",
   ContentType               |-> "application/json"]

\* JSON.stringify's quoting of a string: the segments with the quotation
\* mark and the reverse solidus escaped, between quotation marks.
RECURSIVE JSONEscape(_)
JSONEscape(s) ==
  IF s = <<>> THEN <<>>
  ELSE (IF Head(s) \in {"\"", "\\"} THEN <<"\\", Head(s)>> ELSE <<Head(s)>>)
         \o JSONEscape(Tail(s))

\* JSON.stringify of a property value that is a string, a number or null.
JSONValue(v) ==
  CASE v.t = "string" -> <<"\"">> \o JSONEscape(v.s) \o <<"\"">>
    [] v.t = "number" -> <<ToString(v.n)>>
    [] OTHER          -> <<"null">>

\* JSON.stringify({ key: v }): a property whose value is undefined is left
\* out of the text.
JSONStringify(key, v) ==
  IF v = UNDEFINED THEN Str(<<"{", "}">>)
  ELSE Str(<<"{", "\"", key, "\"", ":">> \o JSONValue(v) \o <<"}">>)

\* A response whose status is fixed instead of passed through.
createResponse_fixedStatus(result) ==
  IF result.success
    THEN [statusCode |-> 200,
          headers    |-> headers,
          body       |-> JSONStringify("reply", result.reply)]
    ELSE [statusCode |-> 200,
          headers    |-> headers,
          body       |-> JSONStringify("error", result.error)]

createResponse(result) ==
  IF result.success
    THEN [statusCode |-> result.statusCode,
          headers    |-> headers,
          body       |-> JSONStringify("reply", result.reply)]
    ELSE [statusCode |-> result.statusCode,
          headers    |-> headers,
          body       |-> JSONStringify("error", result.error)]

\* ------------------------------------------------------------------------
\* Inputs: the arguments of a call and the behaviour of the upstream service
\* ------------------------------------------------------------------------

\* Longest message text, longest chat history, and the longest history of
\* which every combination of entries is enumerated.
MaxMsgLen == 2

MaxHistory == 12

MaxShort == 2

Chars == {" ", "h"}

Texts == UNION {[1..n -> Chars] : n \in 0..MaxMsgLen}

\* message: missing, null, numbers, and every text up to MaxMsgLen.
Messages == {UNDEFINED, NULL, Num(0), Num(42)} \cup {Str(s) : s \in Texts}

KEY == Str(<<"k">>)

MODEL == Str(<<"m">>)

\* env: missing, without a key, with an empty key, with a key.
Envs ==
  {UNDEFINED, EmptyObj,
   Obj([GEMINI_MODEL_NAME |-> MODEL]),
   Obj([GEMINI_API_KEY |-> Str(<<>>)]),
   Obj([GEMINI_API_KEY |-> KEY]),
   Obj([GEMINI_API_KEY |-> KEY, GEMINI_MODEL_NAME |-> MODEL])}

\* The message text of the history entry at position i: i segments, so that
\* entries at different positions differ.
TextAt(i) == Str([j \in 1..i |-> "h"])

Kinds ==
  {"user", "bot", "noSender", "noMessage", "emptyMessage", "emptySender",
   "null", "primitive"}

\* A history entry of the given kind at position i.
Entry(kind, i) ==
  CASE kind = "user"         -> Obj([sender |-> USER, message |-> TextAt(i)])
    [] kind = "bot"          -> Obj([sender |-> Str(<<"bot">>),
                                     message |-> TextAt(i)])
    [] kind = "noSender"     -> Obj([message |-> TextAt(i)])
    [] kind = "noMessage"    -> Obj([sender |-> USER])
    [] kind = "emptyMessage" -> Obj([sender |-> USER, message |-> Str(<<>>)])
    [] kind = "emptySender"  -> Obj([sender |-> Str(<<>>),
                                     message |-> TextAt(i)])
    [] kind = "null"         -> NULL
    [] OTHER                 -> TextAt(i)

\* Every array of at most MaxShort entries of any kinds.
ShortHistories ==
  UNION {{Arr([i \in 1..n |-> Entry(ks[i], i)]) : ks \in [1..n -> Kinds]} :
           n \in 0..MaxShort}

\* Arrays of up to MaxHistory well-formed entries, alternating between the
\* user and the bot, one of them (at either end or on either side of the
\* cut of slice(-10)) replaced by an entry of any kind.
LongHistories ==
  UNION {UNION {{Arr([i \in 1..n |->
                       IF i = at THEN Entry(kind, i)
                       ELSE Entry(IF i % 2 = 1 THEN "user" ELSE "bot", i)]) :
                    kind \in Kinds} :
                  at \in {1, n - HISTORY_LIMIT, n - HISTORY_LIMIT + 1, n}
                           \cap 1..n} :
           n \in (MaxShort + 1)..MaxHistory}

\* chatHistory values that are no arrays.
OtherHistories == {UNDEFINED, NULL, Num(7), Str(<<"h", "h">>), EmptyObj}

\* The argument objects of the calls considered: every message and every env
\* with a few histories, and every history with a configured key and a
\* message that passes validation.
Params ==
  [message : Messages, env : Envs,
   chatHistory : {UNDEFINED, NULL, Arr(<<>>),
                  Arr([i \in 1..MaxHistory |-> Entry("user", i)])}]
  \cup
  [message : {Str(<<"h">>), Str(<<" ", "h">>)},
   env : {Obj([GEMINI_API_KEY |-> KEY])},
   chatHistory : ShortHistories \cup LongHistories \cup OtherHistories]

\* The HTTP statuses the upstream service answers with.
Statuses == {200, 404, 503}

\* The texts response.text() resolves with.
ErrorTexts == {<<>>, <<"e">>}

\* A body of the expected shape around the given parts value.
WithParts(parts) ==
  Obj([candidates |-> Arr(<<Obj([content |-> Obj([parts |-> parts])])>>)])

\* The values response.json() resolves with.
Bodies ==
  {NULL, Num(5), EmptyObj,
   Obj([error |-> Str(<<"e">>)]),
   Obj([candidates |-> NULL]),
   Obj([candidates |-> Arr(<<>>)]),
   Obj([candidates |-> Arr(<<NULL>>)]),
   Obj([candidates |-> Arr(<<EmptyObj>>)]),
   Obj([candidates |-> Arr(<<Obj([content |-> NULL])>>)]),
   Obj([candidates |-> Arr(<<Obj([content |-> EmptyObj])>>)]),
   WithParts(NULL),
   WithParts(Arr(<<>>)),
   WithParts(Arr(<<NULL>>)),
   WithParts(Arr(<<EmptyObj>>)),
   WithParts(Arr(<<Obj([text |-> NULL])>>)),
   WithParts(Arr(<<Obj([text |-> Num(7)])>>)),
   WithParts(Arr(<<Obj([text |-> Str(<<>>)])>>)),
   WithParts(Arr(<<Obj([text |-> Str(<<"H", "i", "!">>)])>>)),
   WithParts(Arr(<<Obj([text |-> Str(<<"\"", "\\">>)])>>))}

\* ------------------------------------------------------------------------
\* State
\* ------------------------------------------------------------------------

VARIABLES
  params,        \* the argument object of the call
  pc,            \* the position of the invocation
  chatHistory,   \* the parameter chatHistory after its default is applied
  API_KEY,       \* const API_KEY
  MODEL_NAME,    \* const MODEL_NAME
  contents,      \* const contents, once built
  calls,         \* the requests handed to fetch, in order
  response,      \* the outcome of the awaited fetch: the response (its
                 \* status), THROWN when the promise rejected
  body,          \* the outcome of the awaited response.text() or
                 \* response.json(), THROWN when the promise rejected
  result,        \* the object handleGeminiChat returned
  log,           \* the lines written with console.error
  httpResponse   \* the object createResponse returned

vars ==
  <<params, pc, chatHistory, API_KEY, MODEL_NAME, contents, calls, response,
    body, result, log, httpResponse>>

Init ==
  /\ params \in Params
  /\ pc = "enter"
  /\ chatHistory = UNDEFINED
  /\ API_KEY = UNDEFINED
  /\ MODEL_NAME = UNDEFINED
  /\ contents = UNDEFINED
  /\ calls = <<>>
  /\ response = UNDEFINED
  /\ body = UNDEFINED
  /\ result = UNDEFINED
  /\ log = <<>>
  /\ httpResponse = UNDEFINED

\* ------------------------------------------------------------------------
\* The steps of one invocation
\* ------------------------------------------------------------------------

\* return r;
Return(r) == pc' = "returned" /\ result' = r

\* An exception raised in the given step: inside the try block the catch
\* clause logs it and returns the fixed result; outside it the promise of
\* the async function rejects.
Throw(step) ==
  IF step \in TryBlock
    THEN /\ log' = Append(log, <<"Chat handler error:">>)
         /\ Return(Failure("Internal server error", 500))
    ELSE /\ pc' = "rejected"
         /\ UNCHANGED <<log, result>>

\* Line 12: the parameters are bound, chatHistory defaulting to [].
Enter ==
  /\ pc = "enter"
  /\ chatHistory' = IF params.chatHistory = UNDEFINED
                      THEN Arr(<<>>) ELSE params.chatHistory
  /\ pc' = "validateEnv"
  /\ UNCHANGED <<params, API_KEY, MODEL_NAME, contents, calls, response,
                 body, result, log, httpResponse>>

\* Lines 14-24: the environment is read and the key validated.
ValidateEnv ==
  /\ pc = "validateEnv"
  /\ IF Get(params.env, "GEMINI_API_KEY") = THROWN
       THEN Throw("validateEnv") /\ UNCHANGED <<API_KEY, MODEL_NAME>>
       ELSE /\ API_KEY' = Get(params.env, "GEMINI_API_KEY")
            /\ MODEL_NAME' = IF Truthy(Get(params.env, "GEMINI_MODEL_NAME"))
                               THEN Get(params.env, "GEMINI_MODEL_NAME")
                               ELSE DEFAULT_MODEL
            /\ IF KeyMissing(API_KEY')
                 THEN Return(Failure("API key not configured", 500))
                 ELSE pc' = "validateInput" /\ UNCHANGED result
            /\ UNCHANGED log
  /\ UNCHANGED <<params, chatHistory, contents, calls, response, body,
                 httpResponse>>

\* Lines 26-33: the message is validated.
ValidateInput ==
  /\ pc = "validateInput"
  /\ CASE CheckMessage(params.message) = "missing" ->
            Return(Failure("Message is required", 400)) /\ UNCHANGED log
       [] CheckMessage(params.message) = "throw" -> Throw("validateInput")
       [] OTHER -> pc' = "build" /\ UNCHANGED <<result, log>>
  /\ UNCHANGED <<params, chatHistory, API_KEY, MODEL_NAME, contents, calls,
                 response, body, httpResponse>>

\* Lines 35-53: contents is built from the history and the message.
Build ==
  /\ pc = "build"
  /\ IF BuildContents(params.message, chatHistory) = THROWN
       THEN Throw("build") /\ UNCHANGED contents
       ELSE /\ contents' = BuildContents(params.message, chatHistory)
            /\ pc' = "fetch"
            /\ UNCHANGED <<result, log>>
  /\ UNCHANGED <<params, chatHistory, API_KEY, MODEL_NAME, calls, response,
                 body, httpResponse>>

\* Lines 55-74: the request is handed to fetch and its promise awaited.
CallFetch ==
  /\ pc = "fetch"
  /\ calls' = Append(calls, FetchRequest(MODEL_NAME, API_KEY, contents))
  /\ pc' = "awaitFetch"
  /\ UNCHANGED <<params, chatHistory, API_KEY, MODEL_NAME, contents, response,
                 body, result, log, httpResponse>>

\* A response that is not ok answered with another call of fetch.
AfterStatus_retry(status) == IF ~Ok(status) THEN "fetch" ELSE "awaitJson"

\* The step taken when the status of a response is known (lines 76, 89):
\* a response that is not ok has its text read, an ok one its JSON.
AfterStatus(status) == IF ~Ok(status) THEN "awaitText" ELSE "awaitJson"

\* Line 65 resumes: fetch rejected (a network failure) or resolved with a
\* response.
FetchSettled ==
  /\ pc = "awaitFetch"
  /\ \/ Throw("awaitFetch") /\ response' = THROWN
     \/ \E status \in Statuses :
          /\ response' = [status |-> status, ok |-> Ok(status)]
          /\ pc' = AfterStatus(status)
          /\ UNCHANGED <<result, log>>
  /\ UNCHANGED <<params, chatHistory, API_KEY, MODEL_NAME, contents, calls,
                 body, httpResponse>>

\* Lines 77-87 resume: response.text() rejected, or resolved with the text,
\* which is logged with the status before the fixed result is returned.
TextSettled ==
  /\ pc = "awaitText"
  /\ \/ Throw("awaitText") /\ body' = THROWN
     \/ \E text \in ErrorTexts :
          /\ body' = Str(text)
          /\ log' = Append(log, <<"Gemini API error:",
                                  ToString(response.status)>> \o text)
          /\ Return(Unavailable(response.status))
  /\ UNCHANGED <<params, chatHistory, API_KEY, MODEL_NAME, contents, calls,
                 response, httpResponse>>

\* Lines 89-110 resume: response.json() rejected (the body is no JSON), or
\* resolved with the parsed body, from which the reply is extracted.
JsonSettled ==
  /\ pc = "awaitJson"
  /\ \/ Throw("awaitJson") /\ body' = THROWN
     \/ \E parsed \in Bodies :
          /\ body' = parsed
          /\ IF ExtractReply(parsed) = THROWN
               THEN Throw("awaitJson")
               ELSE Return(ExtractReply(parsed)) /\ UNCHANGED log
  /\ UNCHANGED <<params, chatHistory, API_KEY, MODEL_NAME, contents, calls,
                 response, httpResponse>>

\* Lines 141-162: the caller passes the result to createResponse.
Respond ==
  /\ pc = "returned"
  /\ httpResponse' = createResponse(result)
  /\ pc' = "responded"
  /\ UNCHANGED <<params, chatHistory, API_KEY, MODEL_NAME, contents, calls,
                 response, body, result, log>>

Next ==
  \/ Enter
  \/ ValidateEnv
  \/ ValidateInput
  \/ Build
  \/ CallFetch
  \/ FetchSettled
  \/ TextSettled
  \/ JsonSettled
  \/ Respond

Spec == Init /\ [][Next]_vars

\* The transport settles every promise it hands out and the runtime resumes
\* the awaiting function: every step that can be taken eventually is.
FairSpec == Spec /\ WF_vars(Next)

\* ------------------------------------------------------------------------
\* Properties
\* ------------------------------------------------------------------------

\* handleGeminiChat has returned.
Returned == pc \in {"returned", "responded"}

\* The configuration is there and holds no key, or an empty one.
NoApiKey ==
  /\ params.env.t = "object"
  /\ \/ "GEMINI_API_KEY" \notin DOMAIN params.env.f
     \/ params.env.f.GEMINI_API_KEY = Str(<<>>)

\* The configuration holds a key that is not empty.
HasApiKey ==
  /\ params.env.t = "object"
  /\ "GEMINI_API_KEY" \in DOMAIN params.env.f
  /\ params.env.f.GEMINI_API_KEY.t = "string"
  /\ params.env.f.GEMINI_API_KEY.s # <<>>

\* The message is absent, empty, or made of white space only.
BlankMessage ==
  \/ params.message \in {UNDEFINED, NULL}
  \/ /\ params.message.t = "string"
     /\ \A i \in DOMAIN params.message.s : params.message.s[i] = " "

\* The message is a string with something other than white space in it.
ValidMessage ==
  /\ params.message.t = "string"
  /\ \E i \in DOMAIN params.message.s : params.message.s[i] # " "

\* C1: with no API key configured (absent or empty), whatever the message
\* and the history are, the invocation goes no further than the validation
\* of the environment, no request is handed to fetch, and the result is
\* {success: false, statusCode: 500, error: "API key not configured"}.
C1_NoKeyIsConfigurationError ==
  NoApiKey =>
    /\ calls = <<>>
    /\ pc \in {"enter", "validateEnv", "returned", "responded"}
    /\ Returned =>
         result = [success |-> FALSE, statusCode |-> 500,
                   error |-> Str(<<"API key not configured">>),
                   reply |-> UNDEFINED]

\* A call with an empty key and no message has returned the configuration
\* error.
C1_Witness ==
  /\ pc = "returned"
  /\ NoApiKey
  /\ "GEMINI_API_KEY" \in DOMAIN params.env.f
  /\ params.message = UNDEFINED
  /\ result.error = Str(<<"API key not configured">>)

\* C2: with an API key configured and a message that is absent, empty or
\* white space only, the invocation goes no further than the validation of
\* the message, no request is handed to fetch, and the result is
\* {success: false, statusCode: 400, error: "Message is required"}.
C2_BlankMessageIsRejected ==
  (HasApiKey /\ BlankMessage) =>
    /\ calls = <<>>
    /\ pc \in {"enter", "validateEnv", "validateInput", "returned",
               "responded"}
    /\ Returned =>
         result = [success |-> FALSE, statusCode |-> 400,
                   error |-> Str(<<"Message is required">>),
                   reply |-> UNDEFINED]

\* A call with a key and a message of two spaces has returned the
\* validation error.
C2_Witness ==
  /\ pc = "returned"
  /\ HasApiKey
  /\ params.message = Str(<<" ", " ">>)
  /\ result.statusCode = 400

\* The entries of the history passed by the caller (none when the history
\* is left out).
HistoryEntries ==
  IF params.chatHistory.t = "array" THEN params.chatHistory.a ELSE <<>>

\* The contents of the request handed to fetch.
SentContents == calls[1].body.contents.a

\* The entry is an object with a sender and a message that are strings and
\* not empty.
HasSenderAndMessage(e) ==
  /\ e.t = "object"
  /\ "sender" \in DOMAIN e.f
  /\ e.f.sender.t = "string"
  /\ e.f.sender.s # <<>>
  /\ "message" \in DOMAIN e.f
  /\ e.f.message.t = "string"
  /\ e.f.message.s # <<>>

\* C3: when a request is sent for a history of more than 10 entries, its
\* contents hold at most 10 history entries before the new message, each of
\* them carries the message of an entry at one of the last 10 positions,
\* and none carries the message of an entry at an older position.
C3_OnlyLastTenForwarded ==
  (calls # <<>> /\ Len(HistoryEntries) > 10) =>
    LET h   == HistoryEntries
        cut == Len(h) - 10
        c   == SentContents
    IN  /\ Len(c) <= 10 + 1
        /\ \A k \in 1..(Len(c) - 1) :
             /\ \E i \in (cut + 1)..Len(h) :
                  /\ h[i].t = "object"
                  /\ "message" \in DOMAIN h[i].f
                  /\ h[i].f.message = c[k].parts[1].text
             /\ \A i \in 1..cut :
                  (h[i].t = "object" /\ "message" \in DOMAIN h[i].f)
                    => h[i].f.message # c[k].parts[1].text

\* A request was sent for a history of 12 well-formed entries: it holds the
\* last 10 of them and the new message.
C3_Witness ==
  /\ calls # <<>>
  /\ Len(HistoryEntries) = 12
  /\ \A i \in 1..12 : HasSenderAndMessage(HistoryEntries[i])
  /\ Len(SentContents) = 11
  /\ SentContents[1].parts[1].text = HistoryEntries[3].f.message

\* The positions of the last 10 entries of the history that have a sender
\* and a message.
ForwardedPositions ==
  {i \in 1..Len(HistoryEntries) :
     /\ i > Len(HistoryEntries) - 10
     /\ HasSenderAndMessage(HistoryEntries[i])}

\* No entry among the last 10 of the history is null.
NoNullEntry ==
  \A i \in 1..Len(HistoryEntries) :
    i > Len(HistoryEntries) - 10 => ~Nullish(HistoryEntries[i])

\* C4: when validation passes, for a history that is an array or left out,
\* the contents sent are exactly the entries among the last 10 that have a
\* sender and a message (both not empty), in their order, with role "user"
\* for the sender "user" and "model" otherwise, followed by the new message
\* with role "user"; entries without sender or message are skipped and the
\* invocation still sends its request.
C4_ContentsAreFilteredHistoryThenMessage ==
  (HasApiKey /\ ValidMessage /\ params.chatHistory.t \in {"array", "undefined"})
  =>
    /\ calls # <<>> =>
         LET h == HistoryEntries
             c == SentContents
         IN  /\ Len(c) = Cardinality(ForwardedPositions) + 1
             /\ c[Len(c)] = [role |-> "user",
                             parts |-> <<[text |-> params.message]>>]
             /\ \A i \in ForwardedPositions :
                  c[Cardinality({j \in ForwardedPositions : j <= i})] =
                    [role  |-> IF h[i].f.sender = Str(<<"user">>)
                                 THEN "user" ELSE "model",
                     parts |-> <<[text |-> h[i].f.message]>>]
    /\ (NoNullEntry /\ Returned) => calls # <<>>

\* A request was sent for a history of a bot entry followed by an entry
\* without a message.
C4_Witness ==
  /\ calls # <<>>
  /\ Len(HistoryEntries) = 2
  /\ HasSenderAndMessage(HistoryEntries[1])
  /\ HistoryEntries[1].f.sender # Str(<<"user">>)
  /\ HistoryEntries[2].t = "object"
  /\ "message" \notin DOMAIN HistoryEntries[2].f
  /\ Len(SentContents) = 2

\* The upstream service answered with a status that is not a success.
UpstreamNotOk == response \notin {UNDEFINED, THROWN} /\ ~response.ok

\* The upstream service answered with a success status.
UpstreamOk == response \notin {UNDEFINED, THROWN} /\ response.ok

\* C5 as stated: after a response that is not ok the result is
\* {success: false, statusCode: 500, error: "AI service unavailable"},
\* whatever the status and the body, a body that cannot be read included.
C5_AsStated ==
  (UpstreamNotOk /\ Returned) =>
    result = [success |-> FALSE, statusCode |-> 500,
              error |-> Str(<<"AI service unavailable">>),
              reply |-> UNDEFINED]

\* C5, amended: after a response that is not ok the result is a failure
\* with statusCode 500, never the upstream status; its error is
\* "AI service unavailable" whatever the status and the text of the body
\* when the body was read, and "Internal server error" when reading the
\* body failed.
C5_NotOkIsNormalisedTo500 ==
  (UpstreamNotOk /\ Returned) =>
    /\ result.success = FALSE
    /\ result.statusCode = 500
    /\ result.statusCode # response.status
    /\ result.reply = UNDEFINED
    /\ body # UNDEFINED
    /\ result.error = IF body = THROWN
                        THEN Str(<<"Internal server error">>)
                        ELSE Str(<<"AI service unavailable">>)

\* A response with status 503 and a body that was read has been answered.
C5_Witness ==
  /\ pc = "returned"
  /\ UpstreamNotOk
  /\ response.status = 503
  /\ body = Str(<<"e">>)
  /\ result.error = Str(<<"AI service unavailable">>)

\* v is an object without the property k.
Lacks(v, k) == v.t = "object" /\ k \notin DOMAIN v.f

\* v is an array without elements.
IsEmptyArray(v) == v.t = "array" /\ v.a = <<>>

\* The parsed body has no candidates, empty candidates, a candidate without
\* content, a content without parts, empty parts, or a part without text.
Malformed(b) ==
  \/ Lacks(b, "candidates")
  \/ /\ b.t = "object" /\ "candidates" \in DOMAIN b.f
     /\ \/ IsEmptyArray(b.f.candidates)
        \/ /\ b.f.candidates.t = "array" /\ b.f.candidates.a # <<>>
           /\ LET first == b.f.candidates.a[1]
              IN  \/ Lacks(first, "content")
                  \/ /\ first.t = "object" /\ "content" \in DOMAIN first.f
                     /\ \/ Lacks(first.f.content, "parts")
                        \/ /\ first.f.content.t = "object"
                           /\ "parts" \in DOMAIN first.f.content.f
                           /\ LET parts == first.f.content.f.parts
                              IN  \/ IsEmptyArray(parts)
                                  \/ /\ parts.t = "array" /\ parts.a # <<>>
                                     /\ Lacks(parts.a[1], "text")

\* C6: after a success status and a body that parses as JSON but whose
\* candidate structure is missing or malformed, the result is
\* {success: false, statusCode: 500, error: "Invalid AI response"}.
C6_MalformedBodyIsInvalidResponse ==
  (UpstreamOk /\ Returned /\ body \notin {UNDEFINED, THROWN} /\ Malformed(body))
  =>
    result = [success |-> FALSE, statusCode |-> 500,
              error |-> Str(<<"Invalid AI response">>),
              reply |-> UNDEFINED]

\* The fixed error strings.
ErrorStrings ==
  {Str(<<"API key not configured">>), Str(<<"Message is required">>),
   Str(<<"AI service unavailable">>), Str(<<"Invalid AI response">>),
   Str(<<"Internal server error">>)}

\* C7: every result returned has exactly one of reply and error, told
\* apart by success: with success the reply is a string that is not empty,
\* the statusCode is 200 and there is no error; without it the error is one
\* of the fixed strings, the statusCode is 400 or 500 and there is no reply.
C7_ResultIsDiscriminated ==
  Returned =>
    IF result.success
      THEN /\ result.reply.t = "string"
           /\ result.reply.s # <<>>
           /\ result.statusCode = 200
           /\ result.error = UNDEFINED
      ELSE /\ result.error \in ErrorStrings
           /\ result.statusCode \in {400, 500}
           /\ result.reply = UNDEFINED

\* The value returned is a result object: success and statusCode are set.
IsResult(r) ==
  /\ DOMAIN r = {"success", "statusCode", "reply", "error"}
  /\ r.success \in BOOLEAN
  /\ r.statusCode \in {200, 400, 500}

RECURSIVE JSONUnescape(_)
JSONUnescape(s) ==
  IF s = <<>> THEN <<>>
  ELSE IF Head(s) = "\\" /\ Len(s) >= 2
    THEN <<s[2]>> \o JSONUnescape(SubSeq(s, 3, Len(s)))
    ELSE <<Head(s)>> \o JSONUnescape(Tail(s))

\* JSON.parse of the text of an object with one property whose value is a
\* string: the key and the value; no key when the text is anything else.
ParseObject(text) ==
  LET s == text.s
  IN  IF /\ Len(s) >= 8
         /\ <<s[1], s[2], s[4], s[5], s[6]>> = <<"{", "\"", "\"", ":", "\"">>
         /\ <<s[Len(s) - 1], s[Len(s)]>> = <<"\"", "}">>
        THEN [key |-> s[3], value |-> Str(JSONUnescape(SubSeq(s, 7, Len(s) - 2)))]
        ELSE [key |-> "", value |-> UNDEFINED]

\* The result is a RelayResult: a reply that is a string with success, an
\* error that is a string without.
WellFormed(r) ==
  IF r.success THEN r.reply.t = "string" /\ r.error = UNDEFINED
  ELSE r.error.t = "string" /\ r.reply = UNDEFINED

\* C9: the response createResponse builds has the statusCode of the result,
\* one of 200, 400 and 500 for a result of handleGeminiChat, the same four
\* headers whatever the outcome, and, for every RelayResult, a body that
\* parses as an object with the key reply holding result.reply when success
\* is true and the key error holding result.error otherwise.
C9_ResponseMirrorsResult ==
  pc = "responded" =>
    /\ httpResponse.statusCode = result.statusCode
    /\ httpResponse.statusCode \in {200, 400, 500}
    /\ httpResponse.headers =
         [AccessControlAllowOrigin  |-> "*",
          AccessControlAllowHeaders |-> "Content-Type",
          AccessControlAllowMethods |-> "POST, OPTIONS",
          ContentType               |-> "application/json"]
    /\ WellFormed(result) =>
         ParseObject(httpResponse.body) =
           IF result.success
             THEN [key |-> "reply", value |-> result.reply]
             ELSE [key |-> "error", value |-> result.error]

\* A reply holding a quotation mark and a reverse solidus has been turned
\* into a response with status 200.
C9_Witness ==
  /\ pc = "responded"
  /\ result.success
  /\ result.reply = Str(<<"\"", "\\">>)
  /\ httpResponse.statusCode = 200
  /\ Len(httpResponse.body.s) = 12

\* C10: at most one request is handed to fetch in an invocation: none
\* before both validations have passed and contents is built, exactly one
\* by the time a result is returned once contents is built, none after a
\* response that is not ok, a malformed body or a rejected fetch; and a
\* result is returned only once the awaited fetch has settled.
C10_SingleCall ==
  /\ Len(calls) <= 1
  /\ pc \in {"enter", "validateEnv", "validateInput", "build", "fetch"}
       => calls = <<>>
  /\ calls # <<>> =>
       /\ HasApiKey
       /\ ValidMessage
       /\ contents # UNDEFINED
       /\ SentContents = contents.a
       /\ calls[1].method = "POST"
  /\ (Returned /\ contents # UNDEFINED) =>
       /\ Len(calls) = 1
       /\ response # UNDEFINED
  /\ (Returned /\ contents = UNDEFINED) => calls = <<>>

\* A result was returned after the one request was answered with status 503.
C10_Witness ==
  /\ pc = "returned"
  /\ Len(calls) = 1
  /\ UpstreamNotOk
  /\ response.status = 503
  /\ result.success = FALSE

====
